---- MODULE Spec2Model ----
(***************************************************************************)
(* rcompare: discovery of duplicate files by content.                      *)
(*                                                                         *)
(*   file.rs    the directory walker (walk_dir, PathIter, PathSelection)   *)
(*   common.rs  preprocess: the record list and the partition by size      *)
(*   cmp.rs     hash_file, compare_file and the grouping engine FolderC    *)
(*                                                                         *)
(*   cli.rs     the Config made of the two root arguments                  *)
(*                                                                         *)
(* The module holds these state machines over one set of variables:        *)
(*   SpecWalk    one walk of a directory tree, one action per call of      *)
(*               PathIter::next                                            *)
(*   SpecEngine  FolderC fed with an arbitrary sequence of files           *)
(*   Spec        a full run: preprocess, then every to_process bucket fed  *)
(*               to the grouping engine, then the classification           *)
(*   SpecRoots   the two root arguments: the Config, then preprocess on    *)
(*               the walks of the two roots                                *)
(*   SpecCompare compare_file on two files                                 *)
(*   SpecLink    a FileComparison under add_left, add_right, link_files    *)
(***************************************************************************)
EXTENDS Integers, Sequences, FiniteSets, TLC

(***************************************************************************)
(* Bounds of the model.                                                    *)
(***************************************************************************)
\* nodes of a directory tree, the root included
MaxNodes == 4
\* nodes of a tree on which a filesystem call fails
MaxFaults == 2
\* records PathIter::next may return before the model stops calling it
MaxEmit == 5
\* records of the stream preprocess consumes
MaxFiles == 4
\* files fed to a grouping engine that takes any file
MaxFed == 3
\* bytes of a file
MaxLen == 3
\* nodes of a directory tree in which two roots are named
MaxRootNodes == 3
\* size of a file of that tree
MaxSize == 1
\* names added to a FileComparison, and pairs linked in it (calls that repeat
\* an earlier one apart)
MaxCalls == 4

\* cmp.rs SIZE, the length of the read buffers and of the hash key, is 10 * 1024;
\* the model scales it to 2 bytes, so that a file of MaxLen bytes spans two chunks
SIZE == 2

VARIABLES
    fs,         \* the directory tree as fs::metadata and read_dir show it
    iter,       \* the PathIter: [stack, current]
    emitted,    \* the FileInfo records PathIter::next has returned
    walkpc,     \* "new": before walk_dir, "iter": next may be called, "done": next returned None
    info,       \* the record list; index idx is info[idx + 1]
    prep,       \* the Preprocessed value: zero, unique, same, to_process
    map,        \* FolderC.map: hash key -> groups, a group a sequence of FileC
    errors,     \* the indices skipped with a diagnostic (hash or comparison failed)
    zero,       \* Processed.zero
    unique,     \* Processed.unique
    same,       \* Processed.same
    pc,         \* "start", "process", "done"; "engine" in SpecEngine; "idle"
    cur,        \* the bucket of to_process being processed and the position in it
    roots,      \* the root arguments of the command line and the Config made of them
    walks,      \* the roots whose PathIter the loop of preprocess has consumed
    fc,         \* a FileComparison: left, right, files, links
    hist,       \* the names and pairs passed to the FileComparison so far
    verdict     \* the io::Result<bool> of the last call of compare_file

walkvars == <<fs, iter, emitted, walkpc>>

runvars == <<info, prep, map, errors, zero, unique, same, pc, cur>>

othervars == <<roots, walks, fc, hist, verdict>>

vars == <<fs, iter, emitted, walkpc, info, prep, map, errors, zero, unique, same, pc, cur,
          roots, walks, fc, hist, verdict>>

Min(S) == CHOOSE m \in S : \A x \in S : m <= x

Only(S) == CHOOSE x \in S : TRUE

RECURSIVE SortedSeq(_)
SortedSeq(S) == IF S = {} THEN <<>> ELSE <<Min(S)>> \o SortedSeq(S \ {Min(S)})

(***************************************************************************)
(* The filesystem.  A tree has nodes 1..n, node 1 is the root the walk is  *)
(* given, parent[i] < i.  kind is the file type fs::metadata reports (it   *)
(* follows symbolic links, so a link shows as its target).  fault is the   *)
(* filesystem call that fails on the node:                                 *)
(*   "meta"   fs::metadata fails (every call)                              *)
(*   "late"   the metadata call of PathIter::next fails after the checks   *)
(*            before it succeeded (the file changed in between)            *)
(*   "open"   read_dir fails                                               *)
(*   "iter0"  the ReadDir yields an error as its first item                *)
(*   "iter1"  the ReadDir yields an error after its first entry            *)
(* A directory lists its children in increasing node order.                *)
(***************************************************************************)
Kinds == {"file", "dir", "fifo", "blk", "chr", "sock"}

FileFaults == {"meta", "late"}

DirFaults == {"meta", "open", "iter0", "iter1"}

Attrs ==
    {[kind |-> k, fault |-> "none"] : k \in Kinds}
    \cup {[kind |-> "file", fault |-> f] : f \in FileFaults}
    \cup {[kind |-> "dir", fault |-> f] : f \in DirFaults}

ParentFns(n) ==
    {p \in [1..n -> 0..(n - 1)] : p[1] = 0 /\ \A i \in 2..n : p[i] >= 1 /\ p[i] < i}

WellFormed(t) ==
    /\ \A i \in 2..Len(t.parent) : t.attr[t.parent[i]].kind = "dir"
    /\ Cardinality({i \in 1..Len(t.attr) : t.attr[i].fault # "none"}) <= MaxFaults

Nodes == 1..Len(fs.parent)

None == 0

\* fs::metadata(path): Err, or the file type
metadata_err(p) == fs.attr[p].fault = "meta"

\* Path::is_file: false when the metadata cannot be read
is_file(p) == ~metadata_err(p) /\ fs.attr[p].kind = "file"

\* is_path_valid: an io::Result<bool>
is_path_valid(p) ==
    IF metadata_err(p) THEN "Err"
    ELSE IF fs.attr[p].kind \in {"blk", "fifo", "chr"} THEN "Ok(false)"
    ELSE IF fs.attr[p].kind = "dir" \/ fs.attr[p].kind = "file" THEN "Ok(true)"
    ELSE "Ok(false)"

check_if_file_is_valid(p) ==
    LET valid == is_path_valid(p) IN
    IF valid = "Err" THEN FALSE ELSE valid = "Ok(true)"

\* Path::read_dir fails on what is no directory and on a directory that cannot be opened
read_dir_err(p) == ~(fs.attr[p].kind = "dir") \/ fs.attr[p].fault \in {"meta", "open"}

\* the items of the ReadDir of p: its entries, None standing for an Err item
read_dir(p) ==
    LET kids == SortedSeq({i \in Nodes : fs.parent[i] = p}) IN
    IF fs.attr[p].fault = "iter0" THEN <<None>>
    ELSE IF fs.attr[p].fault = "iter1"
         THEN (IF kids = <<>> THEN <<>> ELSE <<Head(kids)>>) \o <<None>>
    ELSE kids

EMPTY == [tag |-> "EMPTY", f |-> None, rd |-> <<>>, path |-> None]

FILE(f) == [tag |-> "FILE", f |-> f, rd |-> <<>>, path |-> None]

FOLDER(rd, path) == [tag |-> "FOLDER", f |-> None, rd |-> rd, path |-> path]

FileInfo(p) == [path |-> p, inode |-> p]

\* PathSelection::next: the selection after the call and the item (None or a path)
PathSelection_next(sel) ==
    IF sel.tag = "EMPTY" THEN [sel |-> sel, item |-> None]
    ELSE IF sel.tag = "FILE" THEN [sel |-> FILE(None), item |-> sel.f]
    ELSE IF sel.rd = <<>> THEN [sel |-> sel, item |-> None]
    ELSE IF Head(sel.rd) = None
         THEN [sel |-> FOLDER(Tail(sel.rd), sel.path), item |-> None]
    ELSE [sel |-> FOLDER(Tail(sel.rd), sel.path), item |-> Head(sel.rd)]

PathIter_new(path) ==
    IF ~check_if_file_is_valid(path) THEN [stack |-> <<>>, current |-> EMPTY]
    ELSE IF is_file(path) THEN [stack |-> <<>>, current |-> FILE(path)]
    ELSE IF read_dir_err(path) THEN [stack |-> <<>>, current |-> EMPTY]
    ELSE [stack |-> <<>>, current |-> FOLDER(read_dir(path), path)]

walk_dir(dir) == PathIter_new(dir)

\* PathIter::next that lists a subdirectory and never pushes it on the stack
RECURSIVE PathIter_next_nodescend(_)
PathIter_next_nodescend(self) ==
    LET it == self IN
    LET r == PathSelection_next(it.current)
        it1 == [it EXCEPT !.current = r.sel]
        path == r.item
    IN  IF path # None
        THEN IF ~check_if_file_is_valid(path) THEN PathIter_next_nodescend(it1)
             ELSE IF is_file(path)
                  THEN IF fs.attr[path].fault = "late" THEN PathIter_next_nodescend(it1)
                       ELSE [it |-> it1, out |-> <<FileInfo(path)>>]
             ELSE PathIter_next_nodescend(it1)
        ELSE IF it1.stack = <<>> THEN [it |-> it1, out |-> <<>>]
        ELSE PathIter_next_nodescend([stack |-> SubSeq(it1.stack, 1, Len(it1.stack) - 1),
                                      current |-> it1.stack[Len(it1.stack)]])

\* PathIter::next that advances a copy of the iterator: a record is returned
\* and the iterator itself stays where it was
RECURSIVE PathIter_next_from(_, _)
PathIter_next_from(orig, self) ==
    Only({
        LET r == PathSelection_next(it.current)
            it1 == [it EXCEPT !.current = r.sel]
            path == r.item
        IN  IF path # None
            THEN IF ~check_if_file_is_valid(path) THEN PathIter_next_from(orig, it1)
                 ELSE IF is_file(path)
                      THEN IF fs.attr[path].fault = "late" THEN PathIter_next_from(orig, it1)
                           ELSE [it |-> orig, out |-> <<FileInfo(path)>>]
                 ELSE IF read_dir_err(path) THEN PathIter_next_from(orig, it1)
                 ELSE PathIter_next_from(orig, [it1 EXCEPT !.stack = Append(@, FOLDER(read_dir(path), path))])
            ELSE IF it1.stack = <<>> THEN [it |-> it1, out |-> <<>>]
            ELSE PathIter_next_from(orig, [stack |-> SubSeq(it1.stack, 1, Len(it1.stack) - 1),
                                           current |-> it1.stack[Len(it1.stack)]])
        : it \in {self}})

PathIter_next_copy(self) == PathIter_next_from(self, self)

\* PathIter::next that ends the walk at the first entry it cannot use (a `?` in
\* place of `continue`)
RECURSIVE PathIter_next_abort(_)
PathIter_next_abort(self) ==
    LET it == self IN
    LET r == PathSelection_next(it.current)
        it1 == [it EXCEPT !.current = r.sel]
        path == r.item
        stop == [it |-> [stack |-> <<>>, current |-> EMPTY], out |-> <<>>]
    IN  IF path # None
        THEN IF ~check_if_file_is_valid(path) THEN stop
             ELSE IF is_file(path)
                  THEN IF fs.attr[path].fault = "late" THEN stop
                       ELSE [it |-> it1, out |-> <<FileInfo(path)>>]
             ELSE IF read_dir_err(path) THEN stop
             ELSE PathIter_next_abort([it1 EXCEPT !.stack = Append(@, FOLDER(read_dir(path), path))])
        ELSE IF it1.stack = <<>> THEN [it |-> it1, out |-> <<>>]
        ELSE PathIter_next_abort([stack |-> SubSeq(it1.stack, 1, Len(it1.stack) - 1),
                                  current |-> it1.stack[Len(it1.stack)]])

\* PathIter::next: the iterator after the call and the Option returned, <<>> for
\* None and <<info>> for Some(info).  The loop and the tail call are the
\* recursion; the singleton set binds the iterator to its value once per round.
RECURSIVE PathIter_next(_)
PathIter_next(self) ==
    Only({
        LET r == PathSelection_next(it.current)
            it1 == [it EXCEPT !.current = r.sel]
            path == r.item
        IN  IF path # None
            THEN IF ~check_if_file_is_valid(path) THEN PathIter_next(it1)
                 ELSE IF is_file(path)
                      THEN IF fs.attr[path].fault = "late" THEN PathIter_next(it1)
                           ELSE [it |-> it1, out |-> <<FileInfo(path)>>]
                 ELSE IF read_dir_err(path) THEN PathIter_next(it1)
                 ELSE PathIter_next([it1 EXCEPT !.stack = Append(@, FOLDER(read_dir(path), path))])
            ELSE IF it1.stack = <<>> THEN [it |-> it1, out |-> <<>>]
            ELSE PathIter_next([stack |-> SubSeq(it1.stack, 1, Len(it1.stack) - 1),
                                current |-> it1.stack[Len(it1.stack)]])
        : it \in {self}})

(***************************************************************************)
(* SpecWalk: walk_dir on the root of a tree, then PathIter::next until it   *)
(* returns None, as the for loop of preprocess drives it.                  *)
(***************************************************************************)
EmptyMap == [k \in {} |-> <<>>]

EmptyPrep == [zero |-> <<>>, unique |-> <<>>, same |-> <<>>, to_process |-> <<>>]

\* FileComparison::new
FileComparison_new == [left |-> EmptyMap, right |-> EmptyMap, files |-> {}, links |-> <<>>]

NoCalls == [left |-> {}, right |-> {}, pairs |-> {}]

\* no command line yet; gone holds the paths that vanished after the Config was made
NoRoots == [cli |-> <<>>, config |-> <<>>, gone |-> {}]

OtherIdle ==
    /\ roots = NoRoots
    /\ walks = <<>>
    /\ fc = FileComparison_new
    /\ hist = NoCalls
    /\ verdict = "none"

RunIdle ==
    /\ info = <<>>
    /\ prep = EmptyPrep
    /\ map = EmptyMap
    /\ errors = {}
    /\ zero = <<>>
    /\ unique = <<>>
    /\ same = <<>>
    /\ pc = "idle"
    /\ cur = [bucket |-> 1, pos |-> 1]

\* the tree before walk_dir names one: a lone root directory
NoTree == [parent |-> <<0>>, attr |-> <<[kind |-> "dir", fault |-> "none"]>>]

InitWalk ==
    /\ RunIdle
    /\ OtherIdle
    /\ fs = NoTree
    /\ iter = [stack |-> <<>>, current |-> EMPTY]
    /\ emitted = <<>>
    /\ walkpc = "new"

\* walk_dir(root) on the root (node 1) of any tree within the bounds
WalkDir ==
    /\ walkpc = "new"
    /\ \E n \in 1..MaxNodes : \E p \in ParentFns(n) : \E a \in [1..n -> Attrs] :
            /\ WellFormed([parent |-> p, attr |-> a])
            /\ fs' = [parent |-> p, attr |-> a]
    /\ iter' = walk_dir(1)'
    /\ walkpc' = "iter"
    /\ UNCHANGED <<emitted, runvars, othervars>>

NextCall ==
    /\ walkpc = "iter"
    /\ Len(emitted) < MaxEmit
    /\ LET r == PathIter_next(iter) IN
        /\ iter' = r.it
        /\ IF r.out = <<>>
           THEN walkpc' = "done" /\ UNCHANGED emitted
           ELSE emitted' = Append(emitted, r.out[1]) /\ UNCHANGED walkpc
    /\ UNCHANGED <<fs, runvars, othervars>>

NextWalk == WalkDir \/ NextCall

SpecWalk == InitWalk /\ [][NextWalk]_vars

\* the for loop keeps calling next until it returns None
FairSpecWalk == SpecWalk /\ WF_vars(NextCall)

(***************************************************************************)
(* Files and their contents.  A byte is 0 (NUL, the value the buffers are  *)
(* initialised with) or 1.  A record of the list carries the size the      *)
(* walker read from the metadata and stands for the file on disk, whose    *)
(* bytes are data.                                                         *)
(***************************************************************************)
Bytes == {0, 1}

Contents == UNION {[1..l -> Bytes] : l \in 0..MaxLen}

FileRec(d) == [size |-> Len(d), data |-> d]

Streams == UNION {[1..n -> {FileRec(d) : d \in Contents}] : n \in 0..MaxFiles}

Indices(inf) == 0..(Len(inf) - 1)

(***************************************************************************)
(* common.rs: preprocess, from the record stream on.                       *)
(***************************************************************************)
\* size_map.entry(size).or_default().push(idx)
entry_push(size_map, size, idx) ==
    IF size \in DOMAIN size_map
    THEN [size_map EXCEPT ![size] = Append(@, idx)]
    ELSE [s \in DOMAIN size_map \cup {size} |-> IF s = size THEN <<idx>> ELSE size_map[s]]

\* the first loop that also files a zero-length record under size 0
RECURSIVE scan_records_nocontinue(_, _, _, _)
scan_records_nocontinue(contents, idx, zero_size, size_map) ==
    IF idx >= Len(contents) THEN [zero_size |-> zero_size, size_map |-> size_map]
    ELSE LET value == contents[idx + 1] IN
         IF value.size = 0
         THEN scan_records_nocontinue(contents, idx + 1, Append(zero_size, idx),
                                      entry_push(size_map, value.size, idx))
         ELSE scan_records_nocontinue(contents, idx + 1, zero_size,
                                      entry_push(size_map, value.size, idx))

\* the first loop without the test for size 0
RECURSIVE scan_records_nozero(_, _, _, _)
scan_records_nozero(contents, idx, zero_size, size_map) ==
    IF idx >= Len(contents) THEN [zero_size |-> zero_size, size_map |-> size_map]
    ELSE scan_records_nozero(contents, idx + 1, zero_size,
                             entry_push(size_map, contents[idx + 1].size, idx))

\* the first loop of preprocess: for (idx, value) in iter_dir.enumerate()
RECURSIVE scan_records(_, _, _, _)
scan_records(contents, idx, zero_size, size_map) ==
    IF idx >= Len(contents) THEN [zero_size |-> zero_size, size_map |-> size_map]
    ELSE LET value == contents[idx + 1] IN
         IF value.size = 0
         THEN scan_records(contents, idx + 1, Append(zero_size, idx), size_map)
         ELSE scan_records(contents, idx + 1, zero_size,
                           entry_push(size_map, value.size, idx))

\* the second loop that takes a bucket of two for unique as well
RECURSIVE drain_pairs_unique(_, _, _, _)
drain_pairs_unique(size_map, order, uniq, to_be_processed) ==
    IF order = <<>> THEN [unique |-> uniq, to_process |-> to_be_processed]
    ELSE LET value == size_map[Head(order)] IN
         IF Len(value) <= 2
         THEN drain_pairs_unique(size_map, Tail(order), uniq \o value, to_be_processed)
         ELSE drain_pairs_unique(size_map, Tail(order), uniq, Append(to_be_processed, value))

\* the second loop that ends at the first bucket of one index (a break in place
\* of the continue)
RECURSIVE drain_break(_, _, _, _)
drain_break(size_map, order, uniq, to_be_processed) ==
    IF order = <<>> THEN [unique |-> uniq, to_process |-> to_be_processed]
    ELSE LET value == size_map[Head(order)] IN
         IF Len(value) = 1
         THEN [unique |-> Append(uniq, value[Len(value)]), to_process |-> to_be_processed]
         ELSE IF value # <<>>
              THEN drain_break(size_map, Tail(order), uniq, Append(to_be_processed, value))
              ELSE drain_break(size_map, Tail(order), uniq, to_be_processed)

\* the second loop of preprocess: for (_, mut value) in size_map.drain(), the
\* HashMap handing out its entries in the order `order`
RECURSIVE drain(_, _, _, _)
drain(size_map, order, uniq, to_be_processed) ==
    IF order = <<>> THEN [unique |-> uniq, to_process |-> to_be_processed]
    ELSE LET value == size_map[Head(order)] IN
         IF Len(value) = 1
         THEN drain(size_map, Tail(order), Append(uniq, value[Len(value)]), to_be_processed)
         ELSE IF value # <<>>
              THEN drain(size_map, Tail(order), uniq, Append(to_be_processed, value))
              ELSE drain(size_map, Tail(order), uniq, to_be_processed)

\* the orders in which a HashMap with the keys S may be drained
DrainOrders(S) ==
    {o \in [1..Cardinality(S) -> S] : \A i, j \in 1..Cardinality(S) : o[i] = o[j] => i = j}

size_map_of(contents) == scan_records(contents, 0, <<>>, [s \in {} |-> <<>>]).size_map

\* preprocess, given the records the chained walks yield and the drain order
preprocess(contents, order) ==
    LET first == scan_records(contents, 0, <<>>, [s \in {} |-> <<>>])
        second == drain(first.size_map, order, <<>>, <<>>)
    IN  [info |-> contents,
         zero |-> first.zero_size,
         same |-> <<>>,
         unique |-> second.unique,
         to_process |-> second.to_process]

(***************************************************************************)
(* cmp.rs: hash_file, compare_file, FolderC.                               *)
(***************************************************************************)
Sides == {"LEFT", "RIGHT"}

FileC(name, side) == [name |-> name, side |-> side]

ZeroBuf == [i \in 1..SIZE |-> 0]

\* Read::read of a regular file into a buffer of SIZE bytes at offset pos: the
\* number of bytes read, and the buffer after the call
read_len(d, pos) == IF Len(d) - pos < SIZE THEN Len(d) - pos ELSE SIZE

read_buf(buf, d, pos) == [i \in 1..SIZE |-> IF pos + i <= Len(d) THEN d[pos + i] ELSE buf[i]]

\* hash_file of a file that opens and reads: the key is the buffer itself
hash_file(d) == read_buf(ZeroBuf, d, 0)

\* the loop of compare_file
RECURSIVE compare_loop(_, _, _, _, _, _)
compare_loop(a, b, pos_a, pos_b, contents_a, contents_b) ==
    LET bta == read_len(a, pos_a)
        btb == read_len(b, pos_b)
        ca == read_buf(contents_a, a, pos_a)
        cb == read_buf(contents_b, b, pos_b)
    IN  IF ca # cb THEN FALSE
        ELSE IF (btb = 0) \/ (bta = 0) THEN (btb = 0) /\ (bta = 0)
        ELSE compare_loop(a, b, pos_a + bta, pos_b + btb, ca, cb)

\* compare_file: an io::Result<bool>; ioerr says that check_file, open or read fails
compare_file(a, b, ioerr) ==
    IF ioerr THEN "Err"
    ELSE IF compare_loop(a, b, 0, 0, ZeroBuf, ZeroBuf) THEN "Ok(true)"
    ELSE "Ok(false)"

\* the for loop of add_to_map over the groups of one key: the comparison with
\* number fail_at fails (0: none does)
RECURSIVE scan_choices(_, _, _, _, _)
scan_choices(inf, groups, i, idx, fail_at) ==
    IF i > Len(groups) THEN [res |-> "none", at |-> 0]
    ELSE LET check == compare_file(inf[groups[i][1].name + 1].data, inf[idx + 1].data,
                                   i = fail_at)
         IN  IF check = "Err" THEN [res |-> "err", at |-> i]
             ELSE IF check = "Ok(true)" THEN [res |-> "push", at |-> i]
             ELSE scan_choices(inf, groups, i + 1, idx, fail_at)

\* add_to_map that takes an equal key for equal contents
add_to_map_trust_hash(inf, m, hash, idx, side, fail_at) ==
    LET new == FileC(idx, side) IN
    IF hash \in DOMAIN m
    THEN [map |-> [m EXCEPT ![hash][1] = Append(@, new)], skipped |-> FALSE]
    ELSE [map |-> [k \in DOMAIN m \cup {hash} |-> IF k = hash THEN <<<<new>>>> ELSE m[k]],
          skipped |-> FALSE]

\* add_to_map without the return after choices.push(new)
add_to_map_noreturn(inf, m, hash, idx, side, fail_at) ==
    LET new == FileC(idx, side) IN
    IF hash \in DOMAIN m
    THEN LET r == scan_choices(inf, m[hash], 1, idx, fail_at) IN
         IF r.res = "err" THEN [map |-> m, skipped |-> TRUE]
         ELSE IF r.res = "push"
              THEN [map |-> [m EXCEPT ![hash] = Append([@ EXCEPT ![r.at] = Append(@, new)], <<new>>)],
                    skipped |-> FALSE]
         ELSE [map |-> [m EXCEPT ![hash] = Append(@, <<new>>)], skipped |-> FALSE]
    ELSE [map |-> [k \in DOMAIN m \cup {hash} |-> IF k = hash THEN <<<<new>>>> ELSE m[k]],
          skipped |-> FALSE]

\* add_to_map that compares with the first group of the key only
add_to_map_first_only(inf, m, hash, idx, side, fail_at) ==
    LET new == FileC(idx, side) IN
    IF hash \in DOMAIN m
    THEN LET r == scan_choices(inf, <<m[hash][1]>>, 1, idx, fail_at) IN
         IF r.res = "err" THEN [map |-> m, skipped |-> TRUE]
         ELSE IF r.res = "push"
              THEN [map |-> [m EXCEPT ![hash][r.at] = Append(@, new)], skipped |-> FALSE]
         ELSE [map |-> [m EXCEPT ![hash] = Append(@, <<new>>)], skipped |-> FALSE]
    ELSE [map |-> [k \in DOMAIN m \cup {hash} |-> IF k = hash THEN <<<<new>>>> ELSE m[k]],
          skipped |-> FALSE]

\* add_to_map that keeps a file whose comparison failed, as a group of its own
add_to_map_err_newgroup(inf, m, hash, idx, side, fail_at) ==
    LET new == FileC(idx, side) IN
    IF hash \in DOMAIN m
    THEN LET r == scan_choices(inf, m[hash], 1, idx, fail_at) IN
         IF r.res = "err" THEN [map |-> [m EXCEPT ![hash] = Append(@, <<new>>)], skipped |-> TRUE]
         ELSE IF r.res = "push"
              THEN [map |-> [m EXCEPT ![hash][r.at] = Append(@, new)], skipped |-> FALSE]
         ELSE [map |-> [m EXCEPT ![hash] = Append(@, <<new>>)], skipped |-> FALSE]
    ELSE [map |-> [k \in DOMAIN m \cup {hash} |-> IF k = hash THEN <<<<new>>>> ELSE m[k]],
          skipped |-> FALSE]

\* add_to_map that puts the file in front of the group it joins
add_to_map_insert_front(inf, m, hash, idx, side, fail_at) ==
    LET new == FileC(idx, side) IN
    IF hash \in DOMAIN m
    THEN LET r == scan_choices(inf, m[hash], 1, idx, fail_at) IN
         IF r.res = "err" THEN [map |-> m, skipped |-> TRUE]
         ELSE IF r.res = "push"
              THEN [map |-> [m EXCEPT ![hash][r.at] = <<new>> \o @], skipped |-> FALSE]
         ELSE [map |-> [m EXCEPT ![hash] = Append(@, <<new>>)], skipped |-> FALSE]
    ELSE [map |-> [k \in DOMAIN m \cup {hash} |-> IF k = hash THEN <<<<new>>>> ELSE m[k]],
          skipped |-> FALSE]

\* FolderC::add_to_map: the map after the call, and whether the file was skipped
add_to_map(inf, m, hash, idx, side, fail_at) ==
    LET new == FileC(idx, side) IN
    IF hash \in DOMAIN m
    THEN LET r == scan_choices(inf, m[hash], 1, idx, fail_at) IN
         IF r.res = "err" THEN [map |-> m, skipped |-> TRUE]
         ELSE IF r.res = "push"
              THEN [map |-> [m EXCEPT ![hash][r.at] = Append(@, new)], skipped |-> FALSE]
         ELSE [map |-> [m EXCEPT ![hash] = Append(@, <<new>>)], skipped |-> FALSE]
    ELSE [map |-> [k \in DOMAIN m \cup {hash} |-> IF k = hash THEN <<<<new>>>> ELSE m[k]],
          skipped |-> FALSE]

\* FolderC::add_file on the path of a regular file: hash_err says that
\* hash_file fails
add_file(inf, m, idx, side, hash_err, fail_at) ==
    IF hash_err THEN [map |-> m, skipped |-> TRUE]
    ELSE add_to_map(inf, m, hash_file(inf[idx + 1].data), idx, side, fail_at)

\* the groups of a map, each named by its key and its position under the key
GroupIds(m) == UNION {{<<k, i>> : i \in 1..Len(m[k])} : k \in DOMAIN m}

GroupNames(g) == {g[j].name : j \in 1..Len(g)}

\* print_report: the lists it builds, sorted in the code and sets here
print_report(m) ==
    [same |-> {GroupNames(m[id[1]][id[2]]) : id \in {x \in GroupIds(m) : Len(m[x[1]][x[2]]) # 1}},
     missing_left |-> {m[id[1]][id[2]][1].name :
                        id \in {x \in GroupIds(m) : /\ Len(m[x[1]][x[2]]) = 1
                                                    /\ m[x[1]][x[2]][1].side = "LEFT"}},
     missing_right |-> {m[id[1]][id[2]][1].name :
                        id \in {x \in GroupIds(m) : /\ Len(m[x[1]][x[2]]) = 1
                                                    /\ m[x[1]][x[2]][1].side = "RIGHT"}}]

(***************************************************************************)
(* SpecEngine: a FolderC fed, one add_file call per action, with any       *)
(* sequence of regular files; info lists the files in the order fed.       *)
(***************************************************************************)
WalkIdle ==
    /\ fs = NoTree
    /\ iter = [stack |-> <<>>, current |-> EMPTY]
    /\ emitted = <<>>
    /\ walkpc = "idle"

InitEngine ==
    /\ WalkIdle
    /\ OtherIdle
    /\ info = <<>>
    /\ prep = EmptyPrep
    /\ map = EmptyMap
    /\ errors = {}
    /\ zero = <<>>
    /\ unique = <<>>
    /\ same = <<>>
    /\ pc = "engine"
    /\ cur = [bucket |-> 1, pos |-> 1]

EngineAddFile ==
    /\ pc = "engine"
    /\ Len(info) < MaxFed
    /\ \E d \in Contents, side \in Sides, hash_err \in BOOLEAN, fail_at \in 0..(MaxFed - 1) :
        LET inf == Append(info, FileRec(d))
            idx == Len(info)
            r == add_file(inf, map, idx, side, hash_err, fail_at)
        IN  /\ info' = inf
            /\ map' = r.map
            /\ errors' = IF r.skipped THEN errors \cup {idx} ELSE errors
    /\ UNCHANGED <<walkvars, othervars, prep, zero, unique, same, pc, cur>>

NextEngine == EngineAddFile

SpecEngine == InitEngine /\ [][NextEngine]_vars

(***************************************************************************)
(* Spec: a full run.  preprocess is common.rs; the driver that feeds the   *)
(* buckets to the engine (Comparator::process_files, called by main.rs) is *)
(* not among the sources and follows sections 4.3 and 4.4 of the           *)
(* specification: every to_process bucket goes, index by index, through a  *)
(* fresh grouping engine; groups of one index become unique, the others    *)
(* same; an index that fails is dropped; zero, unique and same are sorted  *)
(* at the end.  The driver knows no sides: every index is entered as LEFT. *)
(***************************************************************************)
Init ==
    /\ WalkIdle
    /\ OtherIdle
    /\ info = <<>>
    /\ prep = EmptyPrep
    /\ map = EmptyMap
    /\ errors = {}
    /\ zero = <<>>
    /\ unique = <<>>
    /\ same = <<>>
    /\ pc = "start"
    /\ cur = [bucket |-> 1, pos |-> 1]

\* preprocess on the records the walks yield
Preprocess ==
    /\ pc = "start"
    /\ \E contents \in Streams :
        \E order \in DrainOrders(DOMAIN size_map_of(contents)) :
            /\ prep' = preprocess(contents, order)
            /\ info' = contents
    /\ pc' = "process"
    /\ UNCHANGED <<walkvars, othervars, map, errors, zero, unique, same, cur>>

InBucket ==
    /\ cur.bucket <= Len(prep.to_process)
    /\ cur.pos <= Len(prep.to_process[cur.bucket])

\* the next index of the current bucket goes through add_file
ProcessFile ==
    /\ pc = "process"
    /\ InBucket
    /\ \E hash_err \in BOOLEAN, fail_at \in 0..(MaxFiles - 1) :
        LET idx == prep.to_process[cur.bucket][cur.pos]
            r == add_file(info, map, idx, "LEFT", hash_err, fail_at)
        IN  /\ map' = r.map
            /\ errors' = IF r.skipped THEN errors \cup {idx} ELSE errors
    /\ cur' = [cur EXCEPT !.pos = @ + 1]
    /\ UNCHANGED <<walkvars, othervars, info, prep, zero, unique, same, pc>>

\* sorted by their least member, the sequences of the members of the sets in S
RECURSIVE GroupsSorted(_)
GroupsSorted(S) ==
    IF S = {} THEN <<>>
    ELSE LET g == CHOOSE x \in S : \A y \in S : Min(x) <= Min(y) IN
         <<SortedSeq(g)>> \o GroupsSorted(S \ {g})

\* Vec::sort of a list of indices
RECURSIVE SortIdx(_)
SortIdx(v) ==
    IF v = <<>> THEN <<>>
    ELSE LET rest == SortIdx(Tail(v))
             k == Cardinality({i \in 1..Len(rest) : rest[i] < Head(v)})
         IN  SubSeq(rest, 1, k) \o <<Head(v)>> \o SubSeq(rest, k + 1, Len(rest))

\* Vec::sort of a list of groups, none of them empty: by the first index
RECURSIVE SortGroups(_)
SortGroups(v) ==
    IF v = <<>> THEN <<>>
    ELSE LET rest == SortGroups(Tail(v))
             k == Cardinality({i \in 1..Len(rest) : rest[i][1] < Head(v)[1]})
         IN  SubSeq(rest, 1, k) \o <<Head(v)>> \o SubSeq(rest, k + 1, Len(rest))

\* the bucket is exhausted: its groups are classified and the engine is reset
FinishBucket ==
    /\ pc = "process"
    /\ cur.bucket <= Len(prep.to_process)
    /\ cur.pos > Len(prep.to_process[cur.bucket])
    /\ LET rep == print_report(map) IN
        /\ unique' = unique \o SortedSeq(rep.missing_left \cup rep.missing_right)
        /\ same' = same \o GroupsSorted(rep.same)
    /\ map' = EmptyMap
    /\ cur' = [bucket |-> cur.bucket + 1, pos |-> 1]
    /\ UNCHANGED <<walkvars, othervars, info, prep, errors, zero, pc>>

\* no bucket is left: the lists of preprocess are added and all is sorted
Finish ==
    /\ pc = "process"
    /\ cur.bucket > Len(prep.to_process)
    /\ zero' = SortIdx(prep.zero)
    /\ unique' = SortIdx(prep.unique \o unique)
    /\ same' = SortGroups(prep.same \o same)
    /\ pc' = "done"
    /\ UNCHANGED <<walkvars, othervars, info, prep, map, errors, cur>>

Next == Preprocess \/ ProcessFile \/ FinishBucket \/ Finish

Spec == Init /\ [][Next]_vars

(***************************************************************************)
(* SpecRoots: the two root arguments.  cli.rs makes the Config of the      *)
(* command line (TryFrom<Cli> for Config), main.rs hands its two paths to  *)
(* preprocess, which resolves them again and chains the walks.  A root     *)
(* argument names a node of the tree (node 0: a path that does not exist)  *)
(* by its canonical path or by another spelling of it (a symbolic link, a  *)
(* path with ..); fs::canonicalize gives the canonical path.  The working  *)
(* directory is the root of the tree.  fs.size is the size the metadata of *)
(* a file shows.                                                           *)
(***************************************************************************)
Spellings == {"canon", "link"}

PathBuf(node) == [node |-> node, via |-> "canon"]

RootArgs(n) == {[node |-> i, via |-> v] : i \in 1..n, v \in Spellings} \cup {PathBuf(None)}

\* Option<String> of a root argument
OptArgs(n) == {<<>>} \cup {<<a>> : a \in RootArgs(n)}

\* std::env::current_dir()
current_dir == PathBuf(1)

\* fs::canonicalize: an io::Result<PathBuf>
canonicalize(p, gone) ==
    IF p.node = None \/ p.node \in gone THEN [ok |-> FALSE, path |-> PathBuf(None)]
    ELSE [ok |-> TRUE, path |-> PathBuf(p.node)]

\* TryFrom<Cli> for Config: an io::Result<Config>, the fields lhs and rhs
Config_try_from(value) ==
    LET lhs == IF value.lhs # <<>> THEN value.lhs[1] ELSE current_dir
        path == canonicalize(lhs, {})
    IN  IF ~path.ok THEN <<>>
        ELSE LET rhs == IF value.rhs # <<>> THEN value.rhs[1] ELSE path.path
                 path2 == canonicalize(rhs, {})
             IN  IF ~path2.ok THEN <<>>
                 ELSE <<[lhs |-> path.path, rhs |-> path2.path]>>

\* resolve_path
resolve_path(path, gone) ==
    IF path # <<>> THEN canonicalize(path[1], gone) ELSE canonicalize(current_dir, gone)

\* the head of preprocess that goes on with the first root when the second does
\* not resolve
resolve_roots_default(lhs, rhs, gone) ==
    LET lpath == resolve_path(lhs, gone) IN
    IF ~lpath.ok THEN [ok |-> FALSE, lpath |-> lpath.path, rpath |-> lpath.path]
    ELSE IF rhs = <<>> THEN [ok |-> TRUE, lpath |-> lpath.path, rpath |-> lpath.path]
    ELSE LET rpath_buf_res == resolve_path(rhs, gone) IN
         IF ~rpath_buf_res.ok THEN [ok |-> TRUE, lpath |-> lpath.path, rpath |-> lpath.path]
         ELSE [ok |-> TRUE, lpath |-> lpath.path, rpath |-> rpath_buf_res.path]

\* the head of preprocess: lpath and rpath, or the error returned
resolve_roots(lhs, rhs, gone) ==
    LET lpath == resolve_path(lhs, gone) IN
    IF ~lpath.ok THEN [ok |-> FALSE, lpath |-> lpath.path, rpath |-> lpath.path]
    ELSE IF rhs = <<>> THEN [ok |-> TRUE, lpath |-> lpath.path, rpath |-> lpath.path]
    ELSE LET rpath_buf_res == resolve_path(rhs, gone) IN
         IF ~rpath_buf_res.ok THEN [ok |-> FALSE, lpath |-> lpath.path, rpath |-> lpath.path]
         ELSE [ok |-> TRUE, lpath |-> lpath.path, rpath |-> rpath_buf_res.path]

\* the records a PathIter yields until next returns None, with the size of
\* the metadata
RECURSIVE collect(_)
collect(it) ==
    Only({ IF r.out = <<>> THEN <<>>
           ELSE <<[path |-> r.out[1].path, inode |-> r.out[1].inode,
                   size |-> fs.size[r.out[1].path]]>> \o collect(r.it)
           : r \in {PathIter_next(it)} })

\* iter_lhs.chain(iter_rhs) that walks the second root in any case
chained_walks_both(lpath, rpath) ==
    [contents |-> collect(walk_dir(lpath.node)) \o collect(walk_dir(rpath.node)),
     walks |-> <<lpath, rpath>>]

\* iter_lhs.chain(iter_rhs): the records the loop of preprocess takes and the
\* roots whose iterator it consumes.  then_some builds the PathIter of rpath in
\* any case and drops it unused when the two paths are equal.
chained_walks(lpath, rpath) ==
    [contents |-> collect(walk_dir(lpath.node))
                    \o (IF lpath # rpath THEN collect(walk_dir(rpath.node)) ELSE <<>>),
     walks |-> <<lpath>> \o (IF lpath # rpath THEN <<rpath>> ELSE <<>>)]

InitRoots ==
    /\ RunIdle
    /\ fs = NoTree
    /\ iter = [stack |-> <<>>, current |-> EMPTY]
    /\ emitted = <<>>
    /\ walkpc = "idle"
    /\ roots = NoRoots
    /\ walks = <<>>
    /\ fc = FileComparison_new
    /\ hist = NoCalls
    /\ verdict = "none"

\* main: Cli::parse and cli.try_into()?, on any tree and any two arguments
TryFrom ==
    /\ pc = "idle"
    /\ roots.cli = <<>>
    /\ \E n \in 1..MaxRootNodes : \E p \in ParentFns(n) : \E a \in [1..n -> Attrs] :
       \E sz \in [1..n -> 0..MaxSize] :
            /\ WellFormed([parent |-> p, attr |-> a])
            /\ \A i \in 1..n : a[i].kind # "file" => sz[i] = 0
            /\ fs' = [parent |-> p, attr |-> a, size |-> sz]
            /\ \E lhs \in OptArgs(n), rhs \in OptArgs(n) :
                LET value == [lhs |-> lhs, rhs |-> rhs]
                    config == Config_try_from(value)
                IN  /\ roots' = [roots EXCEPT !.cli = <<value>>, !.config = config]
                    /\ pc' = IF config = <<>> THEN "fatal" ELSE "config"
    /\ UNCHANGED <<iter, emitted, walkpc, info, prep, map, errors, zero, unique, same, cur,
                   walks, fc, hist, verdict>>

\* main: common::preprocess(Some(&config.lhs), Some(&config.rhs))?
PreprocessRoots ==
    /\ pc = "config"
    /\ \E gone \in {{}, {roots.config[1].lhs.node}, {roots.config[1].rhs.node}} :
        LET r == resolve_roots(<<roots.config[1].lhs>>, <<roots.config[1].rhs>>, gone) IN
        /\ roots' = [roots EXCEPT !.gone = gone]
        /\ IF ~r.ok
           THEN /\ pc' = "fatal"
                /\ UNCHANGED <<info, prep, walks>>
           ELSE LET w == chained_walks(r.lpath, r.rpath) IN
                /\ pc' = "walked"
                /\ walks' = w.walks
                /\ info' = w.contents
                /\ \E order \in DrainOrders(DOMAIN size_map_of(w.contents)) :
                        prep' = preprocess(w.contents, order)
    /\ UNCHANGED <<walkvars, map, errors, zero, unique, same, cur, fc, hist, verdict>>

NextRoots == TryFrom \/ PreprocessRoots

SpecRoots == InitRoots /\ [][NextRoots]_vars

(***************************************************************************)
(* SpecCompare: compare_file on any two regular files, info[1] and info[2]. *)
(***************************************************************************)
InitCompare ==
    /\ WalkIdle
    /\ OtherIdle
    /\ info \in [1..2 -> {FileRec(d) : d \in Contents}]
    /\ prep = EmptyPrep
    /\ map = EmptyMap
    /\ errors = {}
    /\ zero = <<>>
    /\ unique = <<>>
    /\ same = <<>>
    /\ pc = "compare"
    /\ cur = [bucket |-> 1, pos |-> 1]

CompareFile ==
    /\ pc = "compare"
    /\ \E ioerr \in BOOLEAN : verdict' = compare_file(info[1].data, info[2].data, ioerr)
    /\ pc' = "compared"
    /\ UNCHANGED <<walkvars, info, prep, map, errors, zero, unique, same, cur,
                   roots, walks, fc, hist>>

NextCompare == CompareFile

SpecCompare == InitCompare /\ [][NextCompare]_vars

(***************************************************************************)
(* SpecLink: a FileComparison under any sequence of add_left, add_right    *)
(* and link_files calls.  left and right map a name to an Option<usize>,   *)
(* <<>> for None and <<p>> for Some(p); links[p] of the code is            *)
(* links[p + 1] here.                                                      *)
(***************************************************************************)
Names == {"LA", "LB", "RA", "RB"}

\* FileComparison::add_to_map
FileComparison_add_to_map(files, m, file) ==
    IF file = "" THEN [files |-> files, map |-> m]
    ELSE IF file \notin DOMAIN m
         THEN [files |-> files \cup {file},
               map |-> [k \in DOMAIN m \cup {file} |-> IF k = file THEN <<>> ELSE m[k]]]
    ELSE [files |-> files, map |-> m]

add_left(self, file) ==
    LET r == FileComparison_add_to_map(self.files, self.left, file) IN
    [self EXCEPT !.files = r.files, !.left = r.map]

add_right(self, file) ==
    LET r == FileComparison_add_to_map(self.files, self.right, file) IN
    [self EXCEPT !.files = r.files, !.right = r.map]

\* link_files from the two positions to the choice of pos: the four ifs in
\* their order, each on the positions as the ones before it left them
link_position(self, left, right) ==
    LET pl0 == self.left[left]
        pr0 == self.right[right]
        both == pl0 # <<>> /\ pr0 # <<>>
        move == both /\ pl0[1] # pr0[1]
        links1 == IF move
                  THEN [self.links EXCEPT ![pl0[1] + 1] = @ \cup self.links[pr0[1] + 1],
                                          ![pr0[1] + 1] = {}]
                  ELSE self.links
        pos1 == IF both THEN pl0[1] ELSE 0
        none == pl0 = <<>> /\ pr0 = <<>>
        links2 == IF none THEN Append(links1, {}) ELSE links1
        pos2 == IF none THEN Len(links2) - 1 ELSE pos1
        pl2 == IF none THEN <<pos2>> ELSE pl0
        pr2 == IF none THEN <<pos2>> ELSE pr0
        third == pl2 = <<>> /\ pr2 # <<>>
        pos3 == IF third THEN pr2[1] ELSE pos2
        pl3 == IF third THEN <<pos3>> ELSE pl2
        fourth == pl3 # <<>> /\ pr2 = <<>>
        pos4 == IF fourth THEN pl3[1] ELSE pos3
        pr4 == IF fourth THEN <<pos4>> ELSE pr2
    IN  [left |-> [self.left EXCEPT ![left] = pl3],
         right |-> [self.right EXCEPT ![right] = pr4],
         links |-> links2,
         pos |-> pos4,
         update_indices |-> move]

\* link_files that inserts the left name only
link_files_left_only(self, left, right) ==
    LET s == add_right(add_left(self, left), right) IN
    IF left \notin s.files \/ right \notin s.files THEN [fc |-> s, panic |-> TRUE]
    ELSE LET p == link_position(s, left, right) IN
         IF Len(p.links) = 0 THEN [fc |-> s, panic |-> TRUE]
         ELSE LET links == [p.links EXCEPT ![p.pos + 1] = @ \cup {left}]
                  v == links[p.pos + 1]
              IN  [fc |-> [files |-> s.files,
                           links |-> links,
                           left |-> IF p.update_indices
                                    THEN [k \in DOMAIN p.left |-> IF k \in v THEN <<p.pos>> ELSE p.left[k]]
                                    ELSE p.left,
                           right |-> IF p.update_indices
                                     THEN [k \in DOMAIN p.right |-> IF k \in v THEN <<p.pos>> ELSE p.right[k]]
                                     ELSE p.right],
                   panic |-> FALSE]

\* FileComparison::link_files: the FileComparison after the call, and whether
\* the call panics (unwrap of files.get on a name that add_to_map refused)
link_files(self, left, right) ==
    LET s == add_right(add_left(self, left), right) IN
    IF left \notin s.files \/ right \notin s.files THEN [fc |-> s, panic |-> TRUE]
    ELSE LET p == link_position(s, left, right) IN
         IF Len(p.links) = 0 THEN [fc |-> s, panic |-> TRUE]
         ELSE LET links == [p.links EXCEPT ![p.pos + 1] = @ \cup {left, right}]
                  v == links[p.pos + 1]
              IN  [fc |-> [files |-> s.files,
                           links |-> links,
                           left |-> IF p.update_indices
                                    THEN [k \in DOMAIN p.left |-> IF k \in v THEN <<p.pos>> ELSE p.left[k]]
                                    ELSE p.left,
                           right |-> IF p.update_indices
                                     THEN [k \in DOMAIN p.right |-> IF k \in v THEN <<p.pos>> ELSE p.right[k]]
                                     ELSE p.right],
                   panic |-> FALSE]

\* split_files: the names with position None, and the sets pushed to same with
\* the positions seen; the sets and names are sorted in the code, sets here
split_files(self, m, seen) ==
    LET found == {m[k][1] : k \in {x \in DOMAIN m : m[x] # <<>>}}
        fresh == {p \in found \ seen : self.links[p + 1] # {}}
    IN  [missing |-> {k \in DOMAIN m : m[k] = <<>>},
         same |-> {[pos |-> p, names |-> self.links[p + 1]] : p \in fresh},
         seen |-> seen \cup fresh]

\* FileComparison::print: the lines of "Same contents", one per position, and
\* the two lists of missing names
FileComparison_print(self) ==
    LET l == split_files(self, self.left, {})
        r == split_files(self, self.right, l.seen)
    IN  [same |-> l.same \cup r.same, missing_left |-> l.missing, missing_right |-> r.missing]

InitLink ==
    /\ WalkIdle
    /\ info = <<>>
    /\ prep = EmptyPrep
    /\ map = EmptyMap
    /\ errors = {}
    /\ zero = <<>>
    /\ unique = <<>>
    /\ same = <<>>
    /\ pc = "link"
    /\ cur = [bucket |-> 1, pos |-> 1]
    /\ roots = NoRoots
    /\ walks = <<>>
    /\ fc = FileComparison_new
    /\ hist = NoCalls
    /\ verdict = "none"

AddLeft ==
    /\ pc = "link"
    /\ \E file \in Names \cup {""} :
        /\ file # "" => Cardinality(hist.left \cup {file}) + Cardinality(hist.right) <= MaxCalls
        /\ fc' = add_left(fc, file)
        /\ hist' = [hist EXCEPT !.left = IF file = "" THEN @ ELSE @ \cup {file}]
    /\ UNCHANGED <<walkvars, runvars, roots, walks, verdict>>

AddRight ==
    /\ pc = "link"
    /\ \E file \in Names \cup {""} :
        /\ file # "" => Cardinality(hist.left) + Cardinality(hist.right \cup {file}) <= MaxCalls
        /\ fc' = add_right(fc, file)
        /\ hist' = [hist EXCEPT !.right = IF file = "" THEN @ ELSE @ \cup {file}]
    /\ UNCHANGED <<walkvars, runvars, roots, walks, verdict>>

LinkFiles ==
    /\ pc = "link"
    /\ Cardinality(hist.pairs) < MaxCalls
    /\ \E left \in Names \cup {""}, right \in Names \cup {""} :
        LET r == link_files(fc, left, right) IN
        /\ fc' = r.fc
        /\ pc' = IF r.panic THEN "panic" ELSE "link"
        /\ hist' = IF r.panic THEN hist
                   ELSE [left |-> hist.left \cup {left},
                         right |-> hist.right \cup {right},
                         pairs |-> hist.pairs \cup {<<left, right>>}]
    /\ UNCHANGED <<walkvars, info, prep, map, errors, zero, unique, same, cur,
                   roots, walks, verdict>>

NextLink == AddLeft \/ AddRight \/ LinkFiles

SpecLink == InitLink /\ [][NextLink]_vars

(***************************************************************************)
(* Properties of preprocess and of the grouping engine (Spec, SpecEngine). *)
(***************************************************************************)
InSeq(v) == {v[k] : k \in 1..Len(v)}

Occurrences(v, x) == Cardinality({k \in 1..Len(v) : v[k] = x})

RECURSIVE Flatten(_)
Flatten(vv) == IF vv = <<>> THEN <<>> ELSE Head(vv) \o Flatten(Tail(vv))

SizeOf(x) == info[x + 1].size

DataOf(x) == info[x + 1].data

Identical(x, y) == SizeOf(x) = SizeOf(y) /\ DataOf(x) = DataOf(y)

\* C1: when the run is done, an index that was dropped on an I/O error is in
\* none of zero, unique and same, and every other index of the record list
\* occurs exactly once in zero, unique and the groups of same together; the
\* lists hold nothing but indices of the record list.
PartitionCompleteness ==
    pc = "done" =>
        LET all == zero \o unique \o Flatten(same) IN
        /\ InSeq(all) \subseteq Indices(info)
        /\ \A x \in Indices(info) :
                Occurrences(all, x) = IF x \in errors THEN 0 ELSE 1

\* a finished run with a group of duplicates, a file dropped on an error and
\* a zero-length file or a unique one
PartitionCompletenessWitness ==
    /\ pc = "done"
    /\ zero \o unique # <<>>
    /\ same # <<>>
    /\ errors # {}

\* C2: in every group of the engine, any two files have the same size and
\* the same bytes.
GroupCorrectness ==
    \A id \in GroupIds(map) :
        \A x, y \in GroupNames(map[id[1]][id[2]]) : Identical(x, y)

\* C3: when the run is done and no I/O error occurred, two processed files of
\* identical size and content are in one group of same; an index of unique
\* differs in size or content from every other reported index; and no two
\* groups of same hold files of identical content.
NoFalseNegatives ==
    (pc = "done" /\ errors = {}) =>
        /\ \A x, y \in InSeq(Flatten(prep.to_process)) :
                (x # y /\ Identical(x, y)) =>
                    \E k \in 1..Len(same) : {x, y} \subseteq InSeq(same[k])
        /\ \A u \in InSeq(unique) :
                \A v \in InSeq(zero \o unique \o Flatten(same)) \ {u} : ~Identical(u, v)
        /\ \A j, k \in 1..Len(same) :
                j # k => \A x \in InSeq(same[j]), y \in InSeq(same[k]) : DataOf(x) # DataOf(y)

\* a finished run without errors in which one bucket gave two groups of
\* duplicates
NoFalseNegativesWitness ==
    /\ pc = "done"
    /\ errors = {}
    /\ \E j, k \in 1..Len(same) : j # k /\ SizeOf(same[j][1]) = SizeOf(same[k][1])

\* two files of equal size and equal hash key whose bytes differ
HashCollision(x, y) ==
    /\ SizeOf(x) = SizeOf(y)
    /\ hash_file(DataOf(x)) = hash_file(DataOf(y))
    /\ DataOf(x) # DataOf(y)

\* C4: two files the engine took, of equal size and equal hash key and with
\* different bytes, are in no common group, both are in groups of that one
\* key, and when they are the only files fed the key holds two groups of one
\* file each.
HashCollisionRobust ==
    \A x, y \in Indices(info) \ errors :
        HashCollision(x, y) =>
            LET h == hash_file(DataOf(x)) IN
            /\ \A id \in GroupIds(map) : ~({x, y} \subseteq GroupNames(map[id[1]][id[2]]))
            /\ h \in DOMAIN map
            /\ \E i, j \in 1..Len(map[h]) :
                    i # j /\ x \in GroupNames(map[h][i]) /\ y \in GroupNames(map[h][j])
            /\ Len(info) = 2 => (Len(map[h]) = 2 /\ Len(map[h][1]) = 1 /\ Len(map[h][2]) = 1)

\* exactly two files were fed, they collide, and neither was dropped
HashCollisionRobustWitness ==
    /\ pc = "engine"
    /\ Len(info) = 2
    /\ errors = {}
    /\ HashCollision(0, 1)
    /\ SizeOf(0) > SIZE

\* C5: after preprocess, zero, unique and the to_process buckets together hold
\* every index of the record list exactly once and nothing else, and same is
\* empty.
PreprocessPartition ==
    pc # "start" =>
        LET all == prep.zero \o prep.unique \o Flatten(prep.to_process) IN
        /\ InSeq(all) \subseteq Indices(info)
        /\ \A x \in Indices(info) : Occurrences(all, x) = 1
        /\ prep.same = <<>>

\* preprocess returned a zero-length file, a file of unique size and a bucket
PreprocessPartitionWitness ==
    /\ pc = "process"
    /\ prep.zero # <<>>
    /\ prep.unique # <<>>
    /\ prep.to_process # <<>>

\* C6: after preprocess, an index is in unique exactly when its size is not 0
\* and no other record has that size; every to_process bucket holds at least
\* two indices, all of one size that is not 0, and every index of that size.
SizeBucketing ==
    pc # "start" =>
        /\ \A x \in Indices(info) :
                x \in InSeq(prep.unique) <=>
                    (SizeOf(x) # 0 /\ \A y \in Indices(info) \ {x} : SizeOf(y) # SizeOf(x))
        /\ \A b \in 1..Len(prep.to_process) :
                LET bucket == prep.to_process[b] IN
                /\ Len(bucket) >= 2
                /\ SizeOf(bucket[1]) # 0
                /\ InSeq(bucket) = {x \in Indices(info) : SizeOf(x) = SizeOf(bucket[1])}

\* preprocess returned two buckets
SizeBucketingWitness ==
    /\ pc = "process"
    /\ Len(prep.to_process) = 2
    /\ SizeOf(prep.to_process[1][1]) # SizeOf(prep.to_process[2][1])

\* C7: a record of size 0 is in the zero list of preprocess and in neither its
\* unique list nor a to_process bucket; it never enters a group of the engine,
\* is never hashed or compared (so never dropped on an error), never enters
\* unique or same, and is in zero when the run is done.
ZeroLength ==
    \A x \in Indices(info) :
        SizeOf(x) = 0 =>
            /\ pc # "start" =>
                    /\ Occurrences(prep.zero, x) = 1
                    /\ x \notin InSeq(prep.unique \o Flatten(prep.to_process))
            /\ \A id \in GroupIds(map) : x \notin GroupNames(map[id[1]][id[2]])
            /\ x \notin errors
            /\ x \notin InSeq(unique \o Flatten(same))
            /\ pc = "done" => Occurrences(zero, x) = 1

\* a finished run over two zero-length files and a pair of duplicates
ZeroLengthWitness ==
    /\ pc = "done"
    /\ Len(zero) = 2
    /\ same # <<>>

(***************************************************************************)
(* Properties of the walker (SpecWalk, FairSpecWalk).                      *)
(***************************************************************************)
RECURSIVE Ancestors(_)
Ancestors(i) == IF fs.parent[i] = 0 THEN {} ELSE {fs.parent[i]} \cup Ancestors(fs.parent[i])

EmittedPaths == {emitted[k].path : k \in 1..Len(emitted)}

NoFaults == \A i \in Nodes : fs.attr[i].fault = "none"

\* the regular files recursive descent from the root reaches: every proper
\* ancestor is a directory
ReachableFiles ==
    {i \in Nodes : fs.attr[i].kind = "file" /\ \A a \in Ancestors(i) : fs.attr[a].kind = "dir"}

\* C8: in a tree without I/O errors, the walk emits regular files only, each
\* at most once, and when next has returned None it has emitted exactly the
\* regular files reachable from the root (none when the root is a FIFO, a
\* device or another non-regular entry).
WalkerOutput ==
    NoFaults =>
        /\ \A k \in 1..Len(emitted) : fs.attr[emitted[k].path].kind = "file"
        /\ \A j, k \in 1..Len(emitted) : emitted[j].path = emitted[k].path => j = k
        /\ walkpc = "done" => EmittedPaths = ReachableFiles

\* a finished walk of a tree without faults that descended into a subdirectory,
\* emitted a file of it and met a FIFO
WalkerOutputWitness ==
    /\ walkpc = "done"
    /\ NoFaults
    /\ \E f \in EmittedPaths : fs.parent[f] > 1
    /\ \E i \in Nodes : fs.attr[i].kind = "fifo"

\* C9: once walk_dir has built the iterator, the calls of PathIter::next
\* eventually return None.
WalkTerminates == (walkpc = "iter") ~> (walkpc = "done")

\* a walk that returned None after it emitted a file, skipped a special file
\* and skipped an entry on a failing call
WalkTerminatesWitness ==
    /\ walkpc = "done"
    /\ Len(emitted) >= 1
    /\ \E i \in Nodes : fs.attr[i].kind \in {"fifo", "blk", "chr", "sock"}
    /\ \E i \in Nodes : fs.attr[i].fault # "none"

\* the entries the walk skips: metadata cannot be read, or the directory cannot
\* be opened
Skipped(x) == fs.attr[x].fault \in {"meta", "late", "open"}

\* C10: when next has returned None, nothing was emitted from a skipped entry
\* or from the subtree of a skipped directory, and every regular file with no
\* failing call on itself or on a directory above it was emitted.
WalkerFailSoft ==
    walkpc = "done" =>
        /\ \A x \in Nodes : Skipped(x) =>
                \A e \in EmittedPaths : e # x /\ x \notin Ancestors(e)
        /\ \A f \in Nodes :
                (/\ fs.attr[f] = [kind |-> "file", fault |-> "none"]
                 /\ \A a \in Ancestors(f) : fs.attr[a] = [kind |-> "dir", fault |-> "none"])
                => f \in EmittedPaths

\* a finished walk over a directory that could not be opened and holds a file,
\* with a file outside it emitted
WalkerFailSoftWitness ==
    /\ walkpc = "done"
    /\ \E x \in Nodes :
            /\ fs.attr[x] = [kind |-> "dir", fault |-> "open"]
            /\ \E c \in Nodes : fs.parent[c] = x /\ fs.attr[c].kind = "file"
            /\ \E e \in EmittedPaths : x \notin Ancestors(e)

(***************************************************************************)
(* Properties of the root arguments (SpecRoots).                           *)
(***************************************************************************)
\* the node the first and the second root argument name; an omitted first
\* argument is the working directory, an omitted second one the first
LhsNode == IF roots.cli[1].lhs = <<>> THEN current_dir.node ELSE roots.cli[1].lhs[1].node

RhsNode == IF roots.cli[1].rhs = <<>> THEN LhsNode ELSE roots.cli[1].rhs[1].node

PathsOf(v) == {v[k].path : k \in 1..Len(v)}

\* C11: when preprocess has returned and the two roots name one canonical
\* path (or the second is omitted), the loop consumed one walk, the record
\* list is the walk of that root and holds each of its files once; when the
\* canonical paths differ, the loop consumed the walk of the first root, then
\* that of the second, and the record list is the first walk followed by the
\* second.
SingleWalk ==
    pc = "walked" =>
        IF LhsNode = RhsNode
        THEN /\ walks = <<PathBuf(LhsNode)>>
             /\ info = collect(walk_dir(LhsNode))
             /\ \A j, k \in 1..Len(info) : info[j].path = info[k].path => j = k
        ELSE /\ walks = <<PathBuf(LhsNode), PathBuf(RhsNode)>>
             /\ info = collect(walk_dir(LhsNode)) \o collect(walk_dir(RhsNode))

\* the two arguments spell one directory in two ways, and it holds a file
SingleWalkWitness ==
    /\ pc = "walked"
    /\ roots.cli[1].lhs # <<>>
    /\ roots.cli[1].rhs # <<>>
    /\ roots.cli[1].lhs[1].via # roots.cli[1].rhs[1].via
    /\ LhsNode = RhsNode
    /\ fs.attr[LhsNode].kind = "dir"
    /\ info # <<>>

\* a root argument that does not canonicalize: the path does not exist when
\* the Config is made, or a path of the Config is gone when preprocess
\* resolves it
RootFails ==
    \/ LhsNode = None
    \/ RhsNode = None
    \/ roots.gone # {}

NoFileTwice ==
    pc = "walked" =>
        \A j, k \in 1..Len(info) : info[j].path = info[k].path => j = k

(***************************************************************************)
(* Further properties of the grouping engine (SpecEngine).                 *)
(***************************************************************************)
\* the names the report of a map lists
Reported(m) ==
    UNION print_report(m).same \cup print_report(m).missing_left \cup print_report(m).missing_right

\* C13: a file that was skipped because hash_file or a comparison failed is in
\* no group and in no list of the report; the call that skips it leaves the
\* map as it was; and the engine goes on: it still takes the next file.
RecoverableErrors ==
    /\ [](\A x \in errors :
            /\ \A id \in GroupIds(map) : x \notin GroupNames(map[id[1]][id[2]])
            /\ x \notin Reported(map))
    /\ []((errors # {} /\ Len(info) < MaxFed) => ENABLED EngineAddFile)
    /\ [][errors' # errors => (map' = map /\ pc' = pc)]_vars

\* a file was skipped, and a file fed after it joined a group
RecoverableErrorsWitness ==
    /\ pc = "engine"
    /\ \E x \in errors : \E y \in Indices(info) :
            /\ y > x
            /\ \E id \in GroupIds(map) :
                    /\ y \in GroupNames(map[id[1]][id[2]])
                    /\ Len(map[id[1]][id[2]]) >= 2

\* the groups under the key of d whose first member compare_file finds equal to d
Matches(m, inf, d) ==
    IF hash_file(d) \in DOMAIN m
    THEN {j \in 1..Len(m[hash_file(d)]) :
            compare_loop(inf[m[hash_file(d)][j][1].name + 1].data, d, 0, 0, ZeroBuf, ZeroBuf)}
    ELSE {}

\* C17: in every call of add_file, each group keeps its place, its first member
\* and its members in order; a file that is skipped changes nothing; a file
\* that is taken joins, at the end, the first group in insertion order under
\* its key whose first member compares equal to it, and no other group; when
\* no first member compares equal it becomes a new last group under the key;
\* and when the key is new it becomes the only group of the key.
RepresentativeOnly ==
    [][LET idx == Len(info)
           d == info'[idx + 1].data
           h == hash_file(d)
           found == Matches(map, info, d)
       IN  /\ \A id \in GroupIds(map) :
                /\ id \in GroupIds(map')
                /\ map'[id[1]][id[2]] # <<>>
                /\ SubSeq(map'[id[1]][id[2]], 1, Len(map[id[1]][id[2]])) = map[id[1]][id[2]]
           /\ idx \in errors' => map' = map
           /\ idx \notin errors' =>
                \E side \in Sides :
                    IF found # {}
                    THEN map' = [map EXCEPT ![h][Min(found)] = Append(@, FileC(idx, side))]
                    ELSE IF h \in DOMAIN map
                         THEN map' = [map EXCEPT ![h] = Append(@, <<FileC(idx, side)>>)]
                    ELSE /\ DOMAIN map' = DOMAIN map \cup {h}
                         /\ map'[h] = <<<<FileC(idx, side)>>>>
                         /\ \A k \in DOMAIN map : map'[k] = map[k]
      ]_vars

\* a file passed over the first group of its key and joined the second
RepresentativeOnlyWitness ==
    /\ pc = "engine"
    /\ \E k \in DOMAIN map : Len(map[k]) >= 2 /\ Len(map[k][2]) >= 2

(***************************************************************************)
(* Properties of compare_file (SpecCompare).                               *)
(***************************************************************************)
\* C16: when compare_file has returned without an I/O error on two regular
\* files, its verdict is true exactly when the two files have the same length
\* and the same bytes.
SequentialVerdict ==
    (pc = "compared" /\ verdict # "Err") =>
        (verdict = "Ok(true)" <=> Identical(0, 1))

(***************************************************************************)
(* Determinism of a full run (Spec).                                       *)
(***************************************************************************)
\* the files of size not 0 that were not skipped, and their classes of
\* identical size and content
Processable == {x \in Indices(info) \ errors : SizeOf(x) # 0}

Classes == {{y \in Processable : Identical(x, y)} : x \in Processable}

\* C14: when the run is done, zero, unique and same, taken as sets, are given
\* by the record list and the skipped files alone, whatever the order in which
\* the size map was drained: zero holds the records of size 0, same the classes
\* of two and more identical files, unique the files alone in their class.
Idempotence ==
    pc = "done" =>
        /\ InSeq(zero) = {x \in Indices(info) : SizeOf(x) = 0}
        /\ InSeq(unique) = UNION {c \in Classes : Cardinality(c) = 1}
        /\ {InSeq(same[k]) : k \in 1..Len(same)} = {c \in Classes : Cardinality(c) >= 2}

\* a finished run whose size map held a size of one file and a size of
\* several, so that it was drained in one of two orders
IdempotenceWitness ==
    /\ pc = "done"
    /\ prep.unique # <<>>
    /\ prep.to_process # <<>>
    /\ same # <<>>
    /\ zero # <<>>

(***************************************************************************)
(* Properties of FileComparison (SpecLink).                                *)
(***************************************************************************)
\* the names that occur in a pair passed to link_files
Linked == UNION {{pr[1], pr[2]} : pr \in hist.pairs}

\* C15: after any calls of add_left, add_right and link_files with non-empty
\* names, files holds exactly the names passed in, left the names passed as
\* left names and right the names passed as right names; for every pair passed
\* to link_files a set of links holds both names; and a name that is in no
\* such pair has position None wherever it is.
Registration ==
    pc = "link" =>
        /\ fc.files = hist.left \cup hist.right
        /\ DOMAIN fc.left = hist.left
        /\ DOMAIN fc.right = hist.right
        /\ \A pr \in hist.pairs :
                \E p \in 1..Len(fc.links) : {pr[1], pr[2]} \subseteq fc.links[p]
        /\ \A n \in fc.files \ Linked :
                /\ n \in DOMAIN fc.left => fc.left[n] = <<>>
                /\ n \in DOMAIN fc.right => fc.right[n] = <<>>

\* left and right names apart: a name was added and never linked, and two
\* pairs were linked
RegistrationWitness ==
    /\ pc = "link"
    /\ hist.left \cap hist.right = {}
    /\ \E n \in hist.left \ Linked : fc.left[n] = <<>>
    /\ Cardinality(hist.pairs) >= 2

\* C18: after any calls of link_files with non-empty names, two sets of links
\* at different positions have no name in common; a name with position Some(p)
\* is in links[p]; two linked pairs that share a name are in one set; and no
\* name is in two lines of the "Same contents" list of print.
LinkPartition ==
    pc = "link" =>
        /\ \A p, q \in 1..Len(fc.links) : p # q => fc.links[p] \cap fc.links[q] = {}
        /\ \A n \in DOMAIN fc.left : fc.left[n] # <<>> => n \in fc.links[fc.left[n][1] + 1]
        /\ \A n \in DOMAIN fc.right : fc.right[n] # <<>> => n \in fc.links[fc.right[n][1] + 1]
        /\ \A x, y \in hist.pairs :
                {x[1], x[2]} \cap {y[1], y[2]} # {} =>
                    \E p \in 1..Len(fc.links) : {x[1], x[2], y[1], y[2]} \subseteq fc.links[p]
        /\ \A x, y \in FileComparison_print(fc).same : x # y => x.names \cap y.names = {}

\* the same for names that are used on one side only, where it holds
LinkPartitionOneSided ==
    (hist.left \cap hist.right = {}) => LinkPartition

====
